---- MODULE Spec2Model ----
(***************************************************************************)
(* A model of the completion request pipeline of completion-agent:         *)
(* the model registry (pkg/model/manager.go), the provider adapters        *)
(* (pkg/model/openai.go, pkg/model/llm.go and its sangfor/v2 revision),    *)
(* prompt truncation (pkg/completions/pre_process.go), the orchestrator    *)
(* (CompletionHandler) and the response constructors                       *)
(* (pkg/completions/resp.go), and the HTTP status mapping                  *)
(* (server/completions/completions.go).                                    *)
(*                                                                         *)
(* Texts are sequences of one-character strings, so that slicing, joining  *)
(* and splitting are computed and not assumed.                             *)
(***************************************************************************)
EXTENDS Integers, Sequences, FiniteSets, TLC

VARIABLES
    \* ---- the model registry (LLManager) ----
    models,        \* manager.models: the backends, in registration order
    index,         \* manager.index: the rotation cursor
    sinceInit,     \* history: positions GetAutoModel returned since the last successful Init
    indexAtInit,   \* history: the cursor when the last successful Init returned
    maxModels,     \* history: the largest backend count any Init has installed
    lastCall,      \* history: the last registry call and its outcome
    alive,         \* FALSE once the process has exited (zap's Fatal)
    inits,         \* history: how many times Init has been called
    loopVar,       \* the build's range-loop variable: "shared" by all iterations
                   \* (go directive below 1.22) or "perIteration"
    \* ---- prompt truncation ----
    tokenizer,     \* tokenizers.global: "ok", or "nil" when no tokenizer was loaded
    cfg,           \* the selected backend's ModelConfig (the budgets)
    ppt,           \* the PromptOptions being truncated (input.Processed)
    ppt0,          \* history: the PromptOptions before the first truncatePrompt
    ppt1,          \* history: the PromptOptions after the first truncatePrompt
    runs,          \* history: how many times truncatePrompt has run
    \* ---- the request pipeline ----
    sangforRev,    \* the revision of SangforCompletion in the build: "v1" (llm.go) or "v2"
    pruneDisabled, \* config.Config().Wrapper.Prune.Disabled
    request,       \* history: the request being answered and what its environment did
    response,      \* the CompletionResponse handed to respCompletion
    httpCode,      \* the HTTP status code written for the request
    call,          \* history: the backend call CallLLM made for the request
    trace,         \* history: the stages the request went through, in order
    emitted,       \* the metrics emitted for the request
    \* ---- the single-line heuristic ----
    line,          \* the arguments of NeedSingleCompletion
    single,        \* its result, [kind |-> "unset"] before the call
    \* ---- goroutines calling the registry concurrently ----
    mutex,         \* manager.mutex: "free", else the goroutine holding it
    pc,            \* each goroutine's position in the registry call it is making
    locals,        \* each goroutine's local variables (modelLen, the cursor it read, idx)
    acq,           \* history: the calls in lock-acquisition order, with what they returned
    store          \* Init's assignment to manager.models while it is being performed

regVars   == <<models, index, sinceInit, indexAtInit, maxModels, lastCall, alive, inits,
               loopVar>>
truncVars == <<tokenizer, cfg, ppt, ppt0, ppt1, runs>>
pipeVars  == <<sangforRev, pruneDisabled, request, response, httpCode, call, trace, emitted>>
lineVars  == <<line, single>>
concVars  == <<mutex, pc, locals, acq, store>>
vars      == <<regVars, truncVars, pipeVars, lineVars, concVars>>

(***************************************************************************)
(* Bounds of the model.                                                    *)
(***************************************************************************)
MaxPrefixLen  == 3   \* characters in a request's prefix
MaxContextLen == 2   \* characters in a request's code context
MaxSuffixLen  == 3   \* characters in a request's suffix
MaxBudget     == 3   \* MaxPrefix and MaxSuffix range over 0..MaxBudget
MaxBackends   == 3   \* configuration entries handed to Init
MaxCalls      == 5   \* GetAutoModel calls made after an Init
MaxInits      == 2   \* calls of Init

(***************************************************************************)
(* Texts.                                                                  *)
(***************************************************************************)
Chars == {"a", "\n"}

RECURSIVE TextsUpTo(_)
TextsUpTo(n) ==
    IF n = 0 THEN {<<>>}
    ELSE LET shorter == TextsUpTo(n - 1)
         IN  shorter \cup {Append(t, c) : t \in {s \in shorter : Len(s) = n - 1}, c \in Chars}

DropFirst(s, n) == SubSeq(s, n + 1, Len(s))      \* s[n:]
TakeFirst(s, n) == SubSeq(s, 1, n)               \* s[:n]

HasPrefix(s, p) == Len(s) >= Len(p) /\ SubSeq(s, 1, Len(p)) = p
HasSuffix(s, p) == Len(s) >= Len(p) /\ SubSeq(s, Len(s) - Len(p) + 1, Len(s)) = p

RECURSIVE Join(_)
Join(parts) == IF parts = <<>> THEN <<>> ELSE Head(parts) \o Join(Tail(parts))

\* strings.SplitAfter(s, "\n"): the pieces of s, each cut after a newline; the
\* last piece is what follows the last newline (empty when s ends with one).
RECURSIVE SplitAfterNL(_)
SplitAfterNL(s) ==
    IF \A i \in 1..Len(s) : s[i] # "\n" THEN <<s>>
    ELSE LET k == CHOOSE i \in 1..Len(s) : s[i] = "\n" /\ \A j \in 1..(i - 1) : s[j] # "\n"
         IN  <<SubSeq(s, 1, k)>> \o SplitAfterNL(DropFirst(s, k))

(***************************************************************************)
(* The tokenizer capability: a greedy longest-match tokenizer whose        *)
(* vocabulary is the single characters and the pair "aa".  A token is the  *)
(* text it stands for.                                                     *)
(***************************************************************************)
RECURSIVE Encode(_)
Encode(text) ==
    IF text = <<>> THEN <<>>
    ELSE IF HasPrefix(text, <<"a", "a">>)
         THEN <<TakeFirst(text, 2)>> \o Encode(DropFirst(text, 2))
         ELSE <<TakeFirst(text, 1)>> \o Encode(DropFirst(text, 1))

Decode(tokens) == Join(tokens)

GetTokenCount(text) == Len(Encode(text))

(***************************************************************************)
(* Prompt truncation (pre_process.go).                                     *)
(***************************************************************************)
\* A variant of trimFirstLine that keeps a text of a single line.
trimFirstLineKeepsSingleLine(prompt) ==
    LET lines == SplitAfterNL(prompt)
    IN  IF Len(lines) > 1 /\ ~HasPrefix(lines[1], <<"\n">>)
        THEN Join(Tail(lines))
        ELSE prompt

trimFirstLine(prompt) ==
    LET lines == SplitAfterNL(prompt)
    IN  IF Len(lines) > 0
        THEN IF ~HasPrefix(lines[1], <<"\n">>) /\ ~HasPrefix(lines[1], <<"\r", "\n">>)
             THEN Join(Tail(lines))
             ELSE Join(lines)
        ELSE prompt

trimLastLine(suffix) ==
    LET lines == SplitAfterNL(suffix)
    IN  IF Len(lines) > 0
        THEN IF Len(lines) > 1 /\ ~HasSuffix(lines[Len(lines)], <<"\n">>)
             THEN Join(SubSeq(lines, 1, Len(lines) - 1))
             ELSE Join(lines)
        ELSE suffix

\* A variant of the prefix/context half that keeps the context when the prefix
\* alone fills the budget.
TruncatePrefixContextKeepsContext(c, p) ==
    LET prefixTokens     == Encode(p.Prefix)
        prefixTokensNum  == Len(prefixTokens)
        contextTokensNum == Len(Encode(p.CodeContext))
        prefixMax        == c.MaxPrefix
    IN  IF prefixTokensNum + contextTokensNum > prefixMax /\ prefixTokensNum >= prefixMax
        THEN [p EXCEPT !.Prefix = trimFirstLine(
                           Decode(DropFirst(prefixTokens, prefixTokensNum - prefixMax)))]
        ELSE p

\* A variant of the prefix/context half that measures against the suffix budget.
TruncatePrefixContextWrongBudget(c, p) ==
    LET prefixTokens     == Encode(p.Prefix)
        prefixTokensNum  == Len(prefixTokens)
        contextTokens    == Encode(p.CodeContext)
        contextTokensNum == Len(contextTokens)
        prefixMax        == c.MaxSuffix
        needCutTokens    == prefixTokensNum + contextTokensNum - prefixMax
    IN  IF prefixTokensNum + contextTokensNum > prefixMax
        THEN IF prefixTokensNum >= prefixMax
             THEN [p EXCEPT !.CodeContext = <<>>,
                            !.Prefix = trimFirstLine(
                                Decode(DropFirst(prefixTokens, prefixTokensNum - prefixMax)))]
             ELSE [p EXCEPT !.CodeContext = Decode(DropFirst(contextTokens, needCutTokens))]
        ELSE p

\* A variant of the prefix/context half that cuts the context at its end.
TruncatePrefixContextCutsTail(c, p) ==
    LET prefixTokens     == Encode(p.Prefix)
        prefixTokensNum  == Len(prefixTokens)
        contextTokens    == Encode(p.CodeContext)
        contextTokensNum == Len(contextTokens)
        prefixMax        == c.MaxPrefix
        needCutTokens    == prefixTokensNum + contextTokensNum - prefixMax
    IN  IF prefixTokensNum + contextTokensNum > prefixMax
        THEN IF prefixTokensNum >= prefixMax
             THEN [p EXCEPT !.CodeContext = <<>>,
                            !.Prefix = trimFirstLine(
                                Decode(DropFirst(prefixTokens, prefixTokensNum - prefixMax)))]
             ELSE [p EXCEPT !.CodeContext =
                                Decode(TakeFirst(contextTokens, contextTokensNum - needCutTokens))]
        ELSE p

\* The prefix/context half of truncatePrompt.
TruncatePrefixContext(c, p) ==
    LET prefixTokens     == Encode(p.Prefix)
        prefixTokensNum  == Len(prefixTokens)
        contextTokens    == Encode(p.CodeContext)
        contextTokensNum == Len(contextTokens)
        prefixMax        == c.MaxPrefix
        needCutTokens    == prefixTokensNum + contextTokensNum - prefixMax
    IN  IF prefixTokensNum + contextTokensNum > prefixMax
        THEN IF prefixTokensNum >= prefixMax
             THEN [p EXCEPT !.CodeContext = <<>>,
                            !.Prefix = trimFirstLine(
                                Decode(DropFirst(prefixTokens, prefixTokensNum - prefixMax)))]
             ELSE [p EXCEPT !.CodeContext = Decode(DropFirst(contextTokens, needCutTokens))]
        ELSE p

\* A variant of the suffix half that does not trim the cut suffix.
TruncateSuffixUntrimmed(c, p) ==
    LET suffixTokens    == Encode(p.Suffix)
        suffixTokensNum == Len(suffixTokens)
        suffixMax       == c.MaxSuffix
    IN  IF suffixTokensNum > suffixMax
        THEN [p EXCEPT !.Suffix = Decode(TakeFirst(suffixTokens, suffixMax))]
        ELSE p

\* The suffix half of truncatePrompt.
TruncateSuffix(c, p) ==
    LET suffixTokens    == Encode(p.Suffix)
        suffixTokensNum == Len(suffixTokens)
        suffixMax       == c.MaxSuffix
    IN  IF suffixTokensNum > suffixMax
        THEN [p EXCEPT !.Suffix = trimLastLine(Decode(TakeFirst(suffixTokens, suffixMax)))]
        ELSE p

\* A variant of truncatePrompt that leaves the suffix as it is.
truncatePromptKeepsSuffix(tok, c, p) ==
    IF tok = "nil" THEN p
    ELSE TruncatePrefixContext(c, p)

\* truncatePrompt(cfg, ppt) with the global tokenizer tok.
truncatePrompt(tok, c, p) ==
    IF tok = "nil" THEN p
    ELSE TruncateSuffix(c, TruncatePrefixContext(c, p))

(***************************************************************************)
(* The specification of truncation: any request texts, any budgets, the    *)
(* tokenizer loaded or not; truncatePrompt runs on the same PromptOptions. *)
(***************************************************************************)
NoRequest  == [kind |-> "none"]
NoResponse == [kind |-> "none"]
NoCall     == [kind |-> "none"]

PipeIdle ==
    /\ sangforRev = "v1"
    /\ pruneDisabled = FALSE
    /\ request = NoRequest
    /\ response = NoResponse
    /\ httpCode = 0
    /\ call = NoCall
    /\ trace = <<>>
    /\ emitted = <<>>

NoStore == [kind |-> "none"]

ConcIdle ==
    /\ mutex = "free"
    /\ pc = <<>>
    /\ locals = <<>>
    /\ acq = <<>>
    /\ store = NoStore

LineIdle ==
    /\ line = [prefix |-> <<>>, suffix |-> <<>>, language |-> "other"]
    /\ single = [kind |-> "unset"]

RegEmpty ==
    /\ models = <<>>
    /\ index = 0
    /\ sinceInit = <<>>
    /\ indexAtInit = 0
    /\ maxModels = 0
    /\ lastCall = [op |-> "none"]
    /\ alive = TRUE
    /\ inits = 0

RegIdle == RegEmpty /\ loopVar = "perIteration"

TruncInit ==
    /\ tokenizer \in {"ok", "nil"}
    /\ cfg \in [MaxPrefix : 0..MaxBudget, MaxSuffix : 0..MaxBudget]
    /\ ppt \in [Prefix : TextsUpTo(MaxPrefixLen),
                Suffix : TextsUpTo(MaxSuffixLen),
                CodeContext : TextsUpTo(MaxContextLen)]
    /\ ppt0 = ppt
    /\ ppt1 = ppt
    /\ runs = 0
    /\ RegIdle
    /\ PipeIdle
    /\ LineIdle
    /\ ConcIdle

TruncatePrompt ==
    /\ runs < 2
    /\ ppt' = truncatePrompt(tokenizer, cfg, ppt)
    /\ ppt1' = IF runs = 0 THEN ppt' ELSE ppt1
    /\ runs' = runs + 1
    /\ UNCHANGED <<tokenizer, cfg, ppt0, regVars, pipeVars, lineVars, concVars>>

TruncNext == TruncatePrompt

SpecTruncate == TruncInit /\ [][TruncNext]_vars

(***************************************************************************)
(* Claims about truncation.                                                *)
(***************************************************************************)
PrefixOverBudget == GetTokenCount(ppt0.Prefix) >= cfg.MaxPrefix

CutSuffix == Decode(TakeFirst(Encode(ppt0.Suffix), cfg.MaxSuffix))

HasNewline(text) == \E i \in 1..Len(text) : text[i] = "\n"

\* The text up to and including its last newline: the text without the
\* partial line that follows it.
UpToLastNewline(text) ==
    IF ~HasNewline(text) THEN <<>>
    ELSE LET k == CHOOSE i \in 1..Len(text) :
                      text[i] = "\n" /\ \A j \in (i + 1)..Len(text) : text[j] # "\n"
         IN  SubSeq(text, 1, k)

SuffixOverBudget ==
    tokenizer = "ok" /\ runs >= 1 /\ GetTokenCount(ppt0.Suffix) > cfg.MaxSuffix

Providers == {"openai", "sangfor", "azure"}     \* "azure" has no entry in modelDefs

\* modelDefs[provider], with Init's fallback to NewSangforCompletion.
modelDefs(provider) ==
    IF provider = "openai" THEN "OpenAICompletion"
    ELSE IF provider = "sangfor" THEN "SangforCompletion"
    ELSE "SangforCompletion"

LoopVars == {"shared", "perIteration"}

\* The backends Init builds from the configuration entries, in their order.
\* Each constructor keeps the pointer &c it is given: with a loop variable
\* shared by all iterations every backend points at the one variable, which
\* holds the last entry when the loop is over.
NewModels(cfgModels, lv) ==
    [i \in 1..Len(cfgModels) |->
        [variant |-> modelDefs(cfgModels[i].Provider),
         cfg     |-> IF lv = "shared" THEN cfgModels[Len(cfgModels)] ELSE cfgModels[i]]]

\* A variant of the cursor step that never advances.
NextIndexStuck(idx, modelLen) == idx

\* A variant of the cursor step that wraps to 0 as soon as the cursor reaches
\* the backend count (strict modulo rotation).
NextIndexModulo(idx, modelLen) == IF idx + 1 < modelLen THEN idx + 1 ELSE 0

\* A variant of the cursor step that wraps to 0 after returning backend 0.
NextIndexWrapsToZero(idx, modelLen) == IF idx < modelLen THEN idx + 1 ELSE 0

\* GetAutoModel's cursor after a call that found it at idx.
NextIndex(idx, modelLen) == IF idx < modelLen THEN idx + 1 ELSE 1

\* The position (from 0) GetAutoModel returns when it finds the cursor at idx.
AutoPos(idx, modelLen) == IF idx < modelLen THEN idx ELSE 0

RECURSIVE SeqsUpTo(_, _)
SeqsUpTo(S, n) ==
    IF n = 0 THEN {<<>>}
    ELSE LET shorter == SeqsUpTo(S, n - 1)
         IN  shorter \cup {Append(t, c) : t \in {s \in shorter : Len(s) = n - 1}, c \in S}

RegistryConfigs == [Provider : Providers]

\* Init(cfgModels).  With no entry, zap's Fatal ends the process before the
\* error is returned; otherwise the backend list is replaced and the cursor
\* is left as it is.
InitModels(cfgModels) ==
    /\ alive
    /\ inits < MaxInits
    /\ inits' = inits + 1
    /\ IF Len(NewModels(cfgModels, loopVar)) = 0
       THEN /\ alive' = FALSE
            /\ lastCall' = [op |-> "Init", result |-> "fatal"]
            /\ UNCHANGED <<models, index, sinceInit, indexAtInit, maxModels>>
       ELSE /\ models' = NewModels(cfgModels, loopVar)
            /\ sinceInit' = <<>>
            /\ indexAtInit' = index
            /\ maxModels' = IF Len(cfgModels) > maxModels THEN Len(cfgModels) ELSE maxModels
            /\ lastCall' = [op |-> "Init", result |-> "nil", cfgModels |-> cfgModels]
            /\ UNCHANGED <<index, alive>>
    /\ UNCHANGED <<loopVar, truncVars, pipeVars, lineVars, concVars>>

\* GetAutoModel(): panics on an empty registry, otherwise returns the backend
\* at the cursor and advances it, or returns backend 0 and sets the cursor to 1.
GetAutoModel ==
    /\ alive
    /\ Len(sinceInit) < MaxCalls
    /\ LET modelLen == Len(models)
       IN  IF modelLen = 0
           THEN /\ lastCall' = [op |-> "GetAutoModel", result |-> "panic"]
                /\ UNCHANGED <<models, index, sinceInit, indexAtInit, maxModels, alive, inits>>
           ELSE /\ index' = NextIndex(index, modelLen)
                /\ sinceInit' = Append(sinceInit, AutoPos(index, modelLen))
                /\ lastCall' = [op |-> "GetAutoModel", result |-> "ok",
                                pos |-> AutoPos(index, modelLen)]
                /\ UNCHANGED <<models, indexAtInit, maxModels, alive, inits>>
    /\ UNCHANGED <<loopVar, truncVars, pipeVars, lineVars, concVars>>

\* A variant of GetModel that answers a negative position with the first
\* backend.
GetModelClamps(idx) ==
    /\ alive
    /\ lastCall' = IF idx >= Len(models)
                   THEN [op |-> "GetModel", result |-> "panic", idx |-> idx]
                   ELSE [op |-> "GetModel", result |-> "ok", idx |-> idx,
                         pos |-> IF idx < 0 THEN 0 ELSE idx]
    /\ UNCHANGED <<models, index, sinceInit, indexAtInit, maxModels, alive, inits>>
    /\ UNCHANGED <<loopVar, truncVars, pipeVars, lineVars, concVars>>

\* GetModel(idx): panics when idx >= len(models) (and, in the slice access,
\* when idx < 0); otherwise returns the backend at idx.  The cursor is not used.
GetModel(idx) ==
    /\ alive
    /\ lastCall' = IF idx >= Len(models) \/ idx < 0
                   THEN [op |-> "GetModel", result |-> "panic", idx |-> idx]
                   ELSE [op |-> "GetModel", result |-> "ok", idx |-> idx, pos |-> idx]
    /\ UNCHANGED <<models, index, sinceInit, indexAtInit, maxModels, alive, inits>>
    /\ UNCHANGED <<loopVar, truncVars, pipeVars, lineVars, concVars>>

TruncIdle ==
    /\ tokenizer = "nil"
    /\ cfg = [MaxPrefix |-> 0, MaxSuffix |-> 0]
    /\ ppt = [Prefix |-> <<>>, Suffix |-> <<>>, CodeContext |-> <<>>]
    /\ ppt0 = ppt
    /\ ppt1 = ppt
    /\ runs = 0

RegistryInit ==
    RegEmpty /\ loopVar \in LoopVars /\ TruncIdle /\ PipeIdle /\ LineIdle /\ ConcIdle

RegistryNext ==
    \/ \E cfgModels \in SeqsUpTo(RegistryConfigs, MaxBackends) : InitModels(cfgModels)
    \/ GetAutoModel
    \/ \E idx \in (-1)..MaxBackends : GetModel(idx)

SpecRegistry == RegistryInit /\ [][RegistryNext]_vars

(***************************************************************************)
(* Claims about the registry.                                              *)
(***************************************************************************)
Count(seq, x) == Cardinality({i \in 1..Len(seq) : seq[i] = x})

\* C3: from a first registration of N >= 1 backends (cursor 0), N+1
\* GetAutoModel calls return backend 0 twice and every other backend once.
C3_RoundRobinSpan ==
    (Len(models) >= 1 /\ indexAtInit = 0 /\ Len(sinceInit) = Len(models) + 1)
        => /\ Count(sinceInit, 0) = 2
           /\ \A b \in 1..(Len(models) - 1) : Count(sinceInit, b) = 1

\* C3's case: three backends, four calls made.
C3_Witness ==
    /\ Len(models) = 3 /\ indexAtInit = 0 /\ Len(sinceInit) = 4
    /\ sinceInit[4] = 0

\* C4 as stated: with N >= 1 backends the cursor satisfies 0 <= cursor < N.
C4_CursorIndexesBackend ==
    Len(models) >= 1 => (0 <= index /\ index < Len(models))

\* C4 amended: the cursor stays within 0..M, M the largest backend count any
\* Init has installed (M = N while Init has succeeded once), it equals N
\* after N calls on a fresh registry, and the position GetAutoModel reads is
\* always one of 0..N-1.
C4_CursorWithinLargestCount ==
    /\ 0 <= index /\ index <= maxModels
    /\ (inits <= 1 /\ Len(models) >= 1) => index <= Len(models)
    /\ (lastCall.op = "GetAutoModel" /\ lastCall.result = "ok")
          => (0 <= lastCall.pos /\ lastCall.pos < Len(models))
    /\ (Len(models) >= 1 /\ indexAtInit = 0 /\ Len(sinceInit) = Len(models))
          => index = Len(models)

\* C4's case: N calls on a fresh registry of N >= 2 backends leave the cursor at N.
C4_Witness ==
    /\ Len(models) >= 2 /\ indexAtInit = 0 /\ Len(sinceInit) = Len(models)
    /\ index = Len(models)
    /\ lastCall.op = "GetAutoModel"

(***************************************************************************)
(* Completion statuses and error values.                                   *)
(***************************************************************************)
StatusSuccess     == "success"
StatusReqError    == "reqError"
StatusServerError == "serverError"
StatusModelError  == "modelError"
StatusTimeout     == "timeout"
StatusCanceled    == "canceled"
StatusBusy        == "busy"
StatusRejected    == "rejected"
StatusEmpty       == "empty"

\* A Go error value: nil, an errors.New/fmt.Errorf value with its message, or
\* the *url.Error in which http.Client.Do wraps whatever made the call fail.
NilErr        == [kind |-> "nil"]
Errorf(msg)   == [kind |-> "error", msg |-> msg]
UrlError(op, url, err) == [kind |-> "url.Error", Op |-> op, URL |-> url, Err |-> err]

\* The two sentinels of package context.
ContextCanceled         == Errorf("context canceled")
ContextDeadlineExceeded == Errorf("context deadline exceeded")

\* err.Error()
ErrorString(err) ==
    IF err.kind = "url.Error"
    THEN err.Op \o " \"" \o err.URL \o "\": " \o err.Err.msg
    ELSE err.msg

Min(a, b) == IF a < b THEN a ELSE b

(***************************************************************************)
(* The provider adapters.  env is what the network does with the call:     *)
(*   env.do    "canceled" | "deadline" | "refused" | "response"            *)
(*   env.code  the HTTP status code of the response                        *)
(*   env.body  of kind "unreadable" (io.ReadAll fails), "malformed" (not   *)
(*             JSON), or "json": the decoded model.CompletionResponse      *)
(***************************************************************************)
\* url.Parse inside http.NewRequestWithContext, on the URLs of the model.
ValidUrl(url) == url # "::bad"

\* client.Do(req): an error is always a *url.Error around its cause.
ClientDo(url, env) ==
    IF env.do = "canceled" THEN [err |-> UrlError("Post", url, ContextCanceled)]
    ELSE IF env.do = "deadline" THEN [err |-> UrlError("Post", url, ContextDeadlineExceeded)]
    ELSE IF env.do = "refused" THEN [err |-> UrlError("Post", url, Errorf("connection refused"))]
    ELSE [err |-> NilErr, StatusCode |-> env.code, Body |-> env.body]

\* The status the adapters give a failed client.Do: `switch err` compares the
\* error value itself with the two sentinels.
DoErrorStatus(err) ==
    IF err = ContextCanceled THEN StatusCanceled
    ELSE IF err = ContextDeadlineExceeded THEN StatusTimeout
    ELSE StatusServerError

NoRsp == [kind |-> "nil"]

getFimPrompt(prefix, suffix, codeContext, c) ==
    c.FimBegin \o codeContext \o <<"\n">> \o prefix \o c.FimHole \o suffix \o c.FimEnd

\* A variant of the prompt that joins context and prefix with a newline even
\* when there is no context.
OpenAIPromptAlwaysJoins(c, p) ==
    IF c.FimMode
    THEN getFimPrompt(p.Prefix, p.Suffix, p.CodeContext, c)
    ELSE p.CodeContext \o <<"\n">> \o p.Prefix

\* The prompt OpenAICompletion.Completions sends.
OpenAIPrompt(c, p) ==
    IF c.FimMode
    THEN getFimPrompt(p.Prefix, p.Suffix, p.CodeContext, c)
    ELSE IF p.CodeContext # <<>>
         THEN p.CodeContext \o <<"\n">> \o p.Prefix
         ELSE p.Prefix

OpenAIMaxTokens(c, p) == Min(p.MaxTokens, c.MaxOutput)

\* The JSON object OpenAICompletion.Completions marshals.
OpenAIData(c, p) ==
    [model      |-> c.ModelName,
     prompt     |-> OpenAIPrompt(c, p),
     stop       |-> p.Stop,
     max_tokens |-> OpenAIMaxTokens(c, p),
     hasSuffix  |-> (~c.FimMode /\ p.Suffix # <<>>),
     suffix     |-> IF ~c.FimMode /\ p.Suffix # <<>> THEN p.Suffix ELSE <<>>]

\* What follows the marshalling in all three adapters; checkCode is whether
\* the adapter looks at the HTTP status code, ownStatus whether it returns
\* the status the body carries; msg is its message for a bad status code.
AfterMarshal(c, wire, env, checkCode, ownStatus, msg) ==
    IF ~ValidUrl(c.CompletionsUrl)
    THEN [rsp |-> NoRsp, status |-> StatusReqError,
          err |-> Errorf("parse \"" \o c.CompletionsUrl \o "\": missing protocol scheme"),
          wire |-> wire, sent |-> FALSE]
    ELSE LET resp == ClientDo(c.CompletionsUrl, env)
         IN  IF resp.err # NilErr
             THEN [rsp |-> NoRsp, status |-> DoErrorStatus(resp.err), err |-> resp.err,
                   wire |-> wire, sent |-> TRUE]
             ELSE IF resp.Body.kind = "unreadable"
             THEN [rsp |-> NoRsp, status |-> StatusServerError, err |-> Errorf("unexpected EOF"),
                   wire |-> wire, sent |-> TRUE]
             ELSE IF checkCode /\ (resp.StatusCode < 200 \/ resp.StatusCode >= 300)
             THEN [rsp |-> NoRsp, status |-> StatusModelError,
                   err |-> Errorf(msg \o ToString(resp.StatusCode) \o ")"),
                   wire |-> wire, sent |-> TRUE]
             ELSE IF resp.Body.kind = "malformed"
             THEN [rsp |-> NoRsp, status |-> StatusServerError,
                   err |-> Errorf("invalid character '<' looking for beginning of value"),
                   wire |-> wire, sent |-> TRUE]
             ELSE [rsp |-> resp.Body,
                   status |-> IF ownStatus THEN resp.Body.Status ELSE StatusSuccess,
                   err |-> NilErr, wire |-> wire, sent |-> TRUE]

\* OpenAICompletion.Completions (openai.go).
OpenAICompletions(c, p, env) ==
    AfterMarshal(c, OpenAIData(c, p), env, TRUE, FALSE, "invalid StatusCode(")

\* json.Marshal(p): the Sangfor adapters send the parameter as it is.
SangforData(c, p) ==
    [model      |-> p.Model,
     prompt     |-> p.Prefix,
     stop       |-> p.Stop,
     max_tokens |-> p.MaxTokens,
     hasSuffix  |-> TRUE,
     suffix     |-> p.Suffix,
     code_context |-> p.CodeContext]

\* SangforCompletion.Completions (llm.go).
SangforCompletions(c, p, env) ==
    AfterMarshal(c, SangforData(c, p), env, TRUE, FALSE, "Invalid StatusCode(")

\* SangforCompletion.Completions, the sangfor/v2 revision: no look at the
\* status code, and the status is the one the body carries.
SangforV2Completions(c, p, env) ==
    AfterMarshal(c, SangforData(c, p), env, FALSE, TRUE, "")

\* llm.Completions(ctx, para), dispatched on the backend's variant and on the
\* revision of SangforCompletion the build holds.
LLMCompletions(backend, rev, p, env) ==
    IF backend.variant = "OpenAICompletion" THEN OpenAICompletions(backend.cfg, p, env)
    ELSE IF rev = "v2" THEN SangforV2Completions(backend.cfg, p, env)
    ELSE SangforCompletions(backend.cfg, p, env)

(***************************************************************************)
(* The response constructors (resp.go).  Each returns the response and the *)
(* metrics it emitted; a nil error whose Error() is called is a panic.     *)
(***************************************************************************)
PanicRsp == [kind |-> "panic"]

NewPerf == [PromptTokens |-> 0, CompletionTokens |-> 0, TotalTokens |-> 0,
            LLMDuration |-> FALSE, TotalDuration |-> FALSE]

\* Metrics(modelName, status, perf): what the metrics sink receives.
Metrics(modelName, status, perf) == [model |-> modelName, status |-> status, perf |-> perf]

Response(input, text, perf, status, error) ==
    [kind    |-> "response",
     ID      |-> input.CompletionID,
     Model   |-> input.SelectedModel,
     Choices |-> <<[Text |-> text]>>,
     Usage   |-> perf,
     Status  |-> status,
     Error   |-> error]

\* A variant of ErrorResponse that reports nothing to the metrics.
ErrorResponseSilent(input, status, perf, err) ==
    LET e == IF err = NilErr THEN Errorf(status) ELSE err
    IN  [rsp     |-> Response(input, "", perf, status, ErrorString(e)),
         emitted |-> <<>>,
         trace   |-> <<>>]

ErrorResponse(input, status, perf, err) ==
    LET e == IF err = NilErr THEN Errorf(status) ELSE err
    IN  [rsp     |-> Response(input, "", perf, status, ErrorString(e)),
         emitted |-> <<Metrics(input.SelectedModel, status, perf)>>,
         trace   |-> <<"metrics">>]

SuccessResponse(input, completionText, perf) ==
    [rsp     |-> Response(input, completionText, perf, StatusSuccess, ""),
     emitted |-> <<Metrics(input.SelectedModel, StatusSuccess, perf)>>,
     trace   |-> <<"metrics">>]

CancelRequest(input, perf, err) ==
    IF err = NilErr
    THEN [rsp |-> PanicRsp, emitted |-> <<>>, trace |-> <<>>]
    ELSE LET status == IF ErrorString(err) = ErrorString(ContextCanceled)
                       THEN StatusCanceled ELSE StatusTimeout
             perf2  == [perf EXCEPT !.TotalDuration = TRUE]
         IN  [rsp     |-> Response(input, "", perf2, status, ErrorString(err)),
              emitted |-> <<Metrics(input.SelectedModel, status, perf2)>>,
              trace   |-> <<"totalDuration", "metrics">>]

RejectRequest(input, perf, status, err) ==
    IF err = NilErr
    THEN [rsp     |-> PanicRsp,
          emitted |-> <<Metrics(input.SelectedModel, status, perf)>>,
          trace   |-> <<"metrics">>]
    ELSE [rsp     |-> Response(input, "", perf, status, ErrorString(err)),
          emitted |-> <<Metrics(input.SelectedModel, status, perf)>>,
          trace   |-> <<"metrics">>]

(***************************************************************************)
(* The orchestrator (CompletionHandler).                                   *)
(***************************************************************************)
EndOfSentence == "<|end_of_sentence|>"

\* strings.TrimSpace(s) == "" for a text of the model's characters.
IsBlank(text) == \A i \in 1..Len(text) : text[i] \in {"\n", " ", "\t", "\r"}

\* A variant of the stop-word derivation that appends the two multi-newline
\* markers whatever the suffix is.
prepareStopWordsAlwaysMultiline(input) ==
    input.Stop \o <<EndOfSentence, "\n\n", "\n\n\n">>

\* prepareStopWords(input): the request's stop words, the end-of-sentence
\* marker, and the two multi-newline markers when input.Prompts.Suffix is
\* empty or blank.
prepareStopWords(input) ==
    input.Stop \o <<EndOfSentence>>
        \o (IF input.Prompts.Suffix = <<>> \/ IsBlank(input.Prompts.Suffix)
            THEN <<"\n\n", "\n\n\n">> ELSE <<>>)

\* A variant of getTokensCount that counts without looking for the tokenizer.
getTokensCountIgnoresNil(tok, prompt) == GetTokenCount(prompt)

getTokensCount(tok, prompt) == IF tok = "nil" THEN 0 ELSE GetTokenCount(prompt)

\* A variant of the parameter's token limit that asks for one token more than
\* the backend's configured output budget.
ParaMaxTokensOverBudget(h) == h.cfg.MaxOutput + 1

\* para.MaxTokens as CallLLM sets it.
ParaMaxTokens(h) == h.cfg.MaxOutput

\* The CompletionParameter CallLLM builds from the truncated input.
Para(h, input, processed) ==
    [Model        |-> input.Model,
     CompletionID |-> input.CompletionID,
     Prefix       |-> processed.Prefix,
     Suffix       |-> processed.Suffix,
     CodeContext  |-> processed.CodeContext,
     Stop         |-> prepareStopWords(input),
     MaxTokens    |-> ParaMaxTokens(h)]

\* pruneCompletionCode: the post-processing collaborator keeps the text,
\* rewrites it, or prunes it to nothing (env.prune).
pruneCompletionCode(completionText, env) ==
    IF env.prune = "keep" THEN completionText
    ELSE IF env.prune = "rewrite" THEN "y"
    ELSE ""

\* A variant of CallLLM's last step that answers an empty text with success.
FinalResponseAlwaysSuccess(input, completionText, perf) ==
    SuccessResponse(input, completionText, perf)

\* CallLLM's last step: the empty response for an empty text, the success
\* response otherwise.
FinalResponse(input, completionText, perf) ==
    IF completionText = ""
    THEN ErrorResponse(input, StatusEmpty, perf, Errorf("empty"))
    ELSE SuccessResponse(input, completionText, perf)

\* What CallLLM does once the backend has answered with out: an error
\* response for a status other than success, otherwise the post-processing
\* and the empty or success response.
BuildResponse(h, tok, pruneOff, perf, input, env, processed, para, out) ==
    LET perfLLM == [perf EXCEPT !.LLMDuration = TRUE]
        made    == [para |-> para, status |-> out.status, err |-> out.err,
                    wire |-> out.wire, sent |-> out.sent, processed |-> processed,
                    backend |-> h.llm]
    IN  IF out.status # StatusSuccess
        THEN LET perfErr == [perfLLM EXCEPT
                                !.PromptTokens = getTokensCount(tok, processed.Prefix)
                                                   + getTokensCount(tok, processed.CodeContext),
                                !.TotalDuration = TRUE]
                 built   == ErrorResponse(input, out.status, perfErr, out.err)
             IN  [rsp |-> built.rsp, emitted |-> built.emitted, call |-> made, pruned |-> FALSE,
                  trace |-> <<"truncate", "stopwords", "invoke", "totalDuration">> \o built.trace]
        ELSE LET raw     == IF Len(out.rsp.Choices) > 0 THEN out.rsp.Choices[1].Text ELSE ""
                 doPrune == raw # "" /\ ~pruneOff
                 text    == IF doPrune THEN pruneCompletionCode(raw, env) ELSE raw
                 perfOk  == [perfLLM EXCEPT
                                !.PromptTokens = out.rsp.Usage.PromptTokens,
                                !.CompletionTokens = out.rsp.Usage.CompletionTokens,
                                !.TotalTokens = out.rsp.Usage.CompletionTokens
                                                  + out.rsp.Usage.PromptTokens,
                                !.TotalDuration = TRUE]
                 built   == FinalResponse(input, text, perfOk)
             IN  [rsp |-> built.rsp, emitted |-> built.emitted, call |-> made, pruned |-> doPrune,
                  trace |-> <<"truncate", "stopwords", "invoke">>
                              \o (IF doPrune THEN <<"prune">> ELSE <<>>)
                              \o <<"totalDuration">> \o built.trace]

\* A variant of CallBackend that calls the backend a second time when the
\* first call did not succeed.
CallBackendRetries(h, tok, rev, pruneOff, perf, input, env, processed) ==
    LET r == BuildResponse(h, tok, pruneOff, perf, input, env, processed,
                           Para(h, input, processed),
                           LLMCompletions(h.llm, rev, Para(h, input, processed), env))
    IN  IF r.call.status # StatusSuccess
        THEN [r EXCEPT !.trace = <<"truncate", "stopwords", "invoke">>
                                    \o SubSeq(r.trace, 3, Len(r.trace))]
        ELSE r

\* What CallLLM does with the truncated prompt: build the parameter, call
\* the backend (rev is the build's SangforCompletion revision), respond.
CallBackend(h, tok, rev, pruneOff, perf, input, env, processed) ==
    BuildResponse(h, tok, pruneOff, perf, input, env, processed,
                  Para(h, input, processed),
                  LLMCompletions(h.llm, rev, Para(h, input, processed), env))

\* CallLLM(c, input) on handler h = [llm, cfg], with the tokenizer tok and
\* config's Prune.Disabled.
CallLLM(h, tok, rev, pruneOff, perf, input, env) ==
    CallBackend(h, tok, rev, pruneOff, perf, input, env,
                truncatePrompt(tok, h.cfg, input.Processed))

(***************************************************************************)
(* HandleCompletion, and the HTTP handler around it                        *)
(* (server/completions/completions.go).                                    *)
(***************************************************************************)
\* input.Preprocess(c): the filter chain answers the request itself, through
\* one of the constructors, or lets it through (env.pre).
Preprocess(input, perf, env) ==
    IF env.pre.kind = "reject" THEN RejectRequest(input, perf, env.pre.status, env.pre.err)
    ELSE IF env.pre.kind = "cancel" THEN CancelRequest(input, perf, env.pre.err)
    ELSE IF env.pre.kind = "error" THEN ErrorResponse(input, env.pre.status, perf, env.pre.err)
    ELSE [rsp |-> NoRsp, emitted |-> <<>>, trace |-> <<>>]

\* The stages of a request that preprocessing let through.
AfterPreprocess(r) == [r EXCEPT !.trace = <<"preprocess">> \o r.trace]

\* A variant of HandleCompletion that goes on to CallLLM whatever
\* preprocessing returned.
HandleCompletionIgnoresPreprocess(h, tok, rev, pruneOff, perf, input, env) ==
    AfterPreprocess(CallLLM(h, tok, rev, pruneOff, perf, input, env))

\* HandleCompletion(c, input): the response of Preprocess when there is one,
\* CallLLM's otherwise.
HandleCompletion(h, tok, rev, pruneOff, perf, input, env) ==
    LET pre == Preprocess(input, perf, env)
    IN  IF pre.rsp # NoRsp
        THEN [rsp |-> pre.rsp, emitted |-> pre.emitted, call |-> NoCall, pruned |-> FALSE,
              trace |-> <<"preprocess">> \o pre.trace]
        ELSE AfterPreprocess(CallLLM(h, tok, rev, pruneOff, perf, input, env))

StatusOK                  == 200
StatusBadRequest          == 400
StatusRequestTimeout      == 408
StatusInternalServerError == 500
StatusServiceUnavailable  == 503
StatusGatewayTimeout      == 504

\* The status code respCompletion writes: statusCode starts as StatusOK and
\* the switch assigns it; the reqError case has no statement.
RespStatusCode(status) ==
    IF status = StatusSuccess THEN StatusOK
    ELSE IF status = StatusCanceled THEN StatusRequestTimeout
    ELSE IF status = StatusTimeout THEN StatusGatewayTimeout
    ELSE IF status = StatusBusy THEN StatusServiceUnavailable
    ELSE IF status = StatusReqError THEN StatusOK
    ELSE IF status = StatusRejected THEN StatusBadRequest
    ELSE StatusInternalServerError

\* The CompletionInput bound from the request body; Processed starts as the
\* request's prompt options.
Input(req) ==
    [Model         |-> "auto",
     CompletionID  |-> "id-1",
     SelectedModel |-> "auto",
     Stop          |-> req.Stop,
     Prompts       |-> [Prefix |-> req.Prefix, Suffix |-> req.Suffix,
                        CodeContext |-> req.CodeContext],
     Processed     |-> [Prefix |-> req.Prefix, Suffix |-> req.Suffix,
                        CodeContext |-> req.CodeContext]]

NilLLM == [kind |-> "nil"]

\* A variant of NewCompletionHandler that takes a step of the rotation even
\* when the caller supplies the backend.
NewCompletionHandlerAlwaysSelects(m, idx, mods) ==
    [llm   |-> IF m = NilLLM THEN mods[AutoPos(idx, Len(mods)) + 1] ELSE m.llm,
     cfg   |-> IF m = NilLLM THEN mods[AutoPos(idx, Len(mods)) + 1].cfg ELSE m.llm.cfg,
     index |-> NextIndex(idx, Len(mods))]

\* NewCompletionHandler(m) on a non-empty registry whose cursor is idx: the
\* handler, and the cursor afterwards.  Only a nil m calls GetAutoModel.
NewCompletionHandler(m, idx, mods) ==
    IF m = NilLLM
    THEN [llm   |-> mods[AutoPos(idx, Len(mods)) + 1],
          cfg   |-> mods[AutoPos(idx, Len(mods)) + 1].cfg,
          index |-> NextIndex(idx, Len(mods))]
    ELSE [llm |-> m.llm, cfg |-> m.llm.cfg, index |-> idx]

\* Completions(c): bind the body, build the handler on the next backend of
\* the rotation, handle the request and write the response.  A panic is
\* answered by gin's Recovery with StatusInternalServerError.
Answer(req, env) ==
    /\ request' = [kind |-> "request", req |-> req, env |-> env]
    /\ IF ~env.bindOk
       THEN /\ response' = [kind |-> "bindError"]
            /\ httpCode' = StatusBadRequest
            /\ UNCHANGED <<index, sinceInit, lastCall, call, trace, emitted>>
       ELSE IF Len(models) = 0
       THEN /\ response' = PanicRsp
            /\ httpCode' = StatusInternalServerError
            /\ lastCall' = [op |-> "GetAutoModel", result |-> "panic"]
            /\ UNCHANGED <<index, sinceInit, call, trace, emitted>>
       ELSE LET pos == AutoPos(index, Len(models))
                h   == NewCompletionHandler(NilLLM, index, models)
            IN  \E r \in {HandleCompletion([llm |-> h.llm, cfg |-> h.cfg], tokenizer,
                                           sangforRev, pruneDisabled,
                                           NewPerf, Input(req), env)} :
                /\ index' = h.index
                /\ lastCall' = [op |-> "GetAutoModel", result |-> "ok", pos |-> pos]
                /\ response' = r.rsp
                /\ httpCode' = IF r.rsp = PanicRsp THEN StatusInternalServerError
                               ELSE RespStatusCode(r.rsp.Status)
                /\ call' = r.call
                /\ trace' = r.trace \o (IF r.rsp = PanicRsp THEN <<>> ELSE <<"respond">>)
                /\ emitted' = r.emitted
                /\ UNCHANGED sinceInit
    /\ UNCHANGED <<models, indexAtInit, maxModels, alive, inits, loopVar>>
    /\ UNCHANGED <<sangforRev, pruneDisabled, truncVars, lineVars, concVars>>

\* A caller builds a handler on a backend of its own choice,
\* NewCompletionHandler(m) with m the backend at pos.
SuppliedHandler(pos) ==
    /\ alive
    /\ request = NoRequest
    /\ pos < Len(models)
    /\ \E h \in {NewCompletionHandler([kind |-> "llm", llm |-> models[pos + 1]],
                                      index, models)} :
          /\ index' = h.index
          /\ lastCall' = [op |-> "NewCompletionHandler", result |-> "ok"]
    /\ UNCHANGED <<models, sinceInit, indexAtInit, maxModels, alive, inits, loopVar>>
    /\ UNCHANGED <<truncVars, pipeVars, lineVars, concVars>>

\* The request is over: what was created for it is dropped.
RequestEnd ==
    /\ request # NoRequest
    /\ request' = NoRequest
    /\ response' = NoResponse
    /\ httpCode' = 0
    /\ call' = NoCall
    /\ trace' = <<>>
    /\ emitted' = <<>>
    /\ UNCHANGED <<regVars, truncVars, sangforRev, pruneDisabled, lineVars, concVars>>

(***************************************************************************)
(* The specification of the pipeline: a registry registered once, requests *)
(* answered one after the other, each with its own fate.                   *)
(***************************************************************************)
FimMarkers == [FimBegin |-> <<"<fim_begin>">>, FimHole |-> <<"<fim_hole>">>,
               FimEnd |-> <<"<fim_end>">>]

\* A ModelConfig; tight budgets leave room for one prefix token and no suffix.
Config(provider, fim, tight, url) ==
    [Provider       |-> provider,
     ModelName      |-> "model-" \o provider,
     CompletionsUrl |-> url,
     MaxPrefix      |-> IF tight THEN 1 ELSE 4,
     MaxSuffix      |-> IF tight THEN 0 ELSE 4,
     MaxOutput      |-> IF tight THEN 1 ELSE 3,
     FimMode        |-> fim,
     FimBegin       |-> FimMarkers.FimBegin,
     FimHole        |-> FimMarkers.FimHole,
     FimEnd         |-> FimMarkers.FimEnd]

PipeConfigs ==
    <<Config("openai", TRUE, FALSE, "http://llm/v1"),
      Config("openai", FALSE, FALSE, "http://llm/v1"),
      Config("sangfor", FALSE, FALSE, "http://llm/v2"),
      Config("openai", TRUE, TRUE, "http://llm/v1"),
      Config("azure", FALSE, TRUE, "http://llm/v2"),
      Config("openai", FALSE, TRUE, "::bad")>>

PipeTexts == {<<>>, <<"a">>, <<"\n">>}

Requests ==
    [Prefix : PipeTexts, Suffix : PipeTexts, CodeContext : {<<>>, <<"a">>},
     Stop : {<<>>, <<"stop", "\n\n">>}]

\* Response bodies whose completion text is empty or missing, and those
\* that carry a text.
BodiesNoText ==
    {[kind |-> "unreadable"], [kind |-> "malformed"]}
      \cup [kind    : {"json"},
            Status  : {"success", "", "modelError"},
            Choices : {<<>>, <<[Text |-> ""]>>},
            Usage   : {[PromptTokens |-> 2, CompletionTokens |-> 1]}]

BodiesText ==
    [kind    : {"json"},
     Status  : {"success", "", "modelError"},
     Choices : {<<[Text |-> "x"]>>},
     Usage   : {[PromptTokens |-> 2, CompletionTokens |-> 1]}]

Codes == {200, 299, 300, 500}

NoPre == [kind |-> "continue"]

PreOutcomes ==
    [kind : {"reject"}, status : {StatusRejected, StatusBusy},
     err : {NilErr, Errorf("rejected by filter")}]
      \cup [kind : {"cancel"}, err : {NilErr, ContextCanceled, ContextDeadlineExceeded}]
      \cup [kind : {"error"}, status : {StatusServerError},
            err : {NilErr, Errorf("bad request")}]

\* The fates of a request: the body does not bind; preprocessing answers it;
\* the call fails; the backend answers.
Fates ==
    [bindOk : {FALSE}, pre : {NoPre}, do : {"refused"}, code : {200},
     body : {[kind |-> "malformed"]}, prune : {"keep"}]
      \cup [bindOk : {TRUE}, pre : PreOutcomes, do : {"refused"}, code : {200},
            body : {[kind |-> "malformed"]}, prune : {"keep"}]
      \cup [bindOk : {TRUE}, pre : {NoPre}, do : {"canceled", "deadline", "refused"},
            code : {200}, body : {[kind |-> "malformed"]}, prune : {"keep"}]
      \cup [bindOk : {TRUE}, pre : {NoPre}, do : {"response"},
            code : Codes, body : BodiesNoText, prune : {"keep"}]
      \cup [bindOk : {TRUE}, pre : {NoPre}, do : {"response"},
            code : Codes, body : BodiesText, prune : {"keep", "rewrite", "empty"}]

PipeInit ==
    /\ loopVar \in LoopVars
    /\ models = NewModels(PipeConfigs, loopVar)
    /\ index = 0
    /\ sinceInit = <<>>
    /\ indexAtInit = 0
    /\ maxModels = Len(PipeConfigs)
    /\ lastCall = [op |-> "Init", result |-> "nil", cfgModels |-> PipeConfigs]
    /\ alive = TRUE
    /\ inits = 1
    /\ tokenizer \in {"ok", "nil"}
    /\ cfg = [MaxPrefix |-> 0, MaxSuffix |-> 0]
    /\ ppt = [Prefix |-> <<>>, Suffix |-> <<>>, CodeContext |-> <<>>]
    /\ ppt0 = ppt
    /\ ppt1 = ppt
    /\ runs = 0
    /\ sangforRev \in {"v1", "v2"}
    /\ pruneDisabled \in BOOLEAN
    /\ request = NoRequest
    /\ response = NoResponse
    /\ httpCode = 0
    /\ call = NoCall
    /\ trace = <<>>
    /\ emitted = <<>>
    /\ LineIdle
    /\ ConcIdle

\* A request arrives while none is being answered.
Completions ==
    /\ alive
    /\ request = NoRequest
    /\ \E req \in Requests, env \in Fates : Answer(req, env)

PipeNext ==
    \/ Completions
    \/ RequestEnd
    \/ \E pos \in 0..(Len(PipeConfigs) - 1) : SuppliedHandler(pos)

SpecPipeline == PipeInit /\ [][PipeNext]_vars

(***************************************************************************)
(* Claims about the pipeline.                                              *)
(***************************************************************************)
Answered == response.kind = "response"
Called   == call # NoCall

\* C1: the HTTP status code written is 200 for success, 408 for canceled,
\* 504 for timeout, 503 for busy, 400 for rejected, and 500 for every other
\* status.
C1_HttpStatusMapping ==
    Answered =>
        httpCode = (IF response.Status = StatusSuccess THEN 200
                    ELSE IF response.Status = StatusCanceled THEN 408
                    ELSE IF response.Status = StatusTimeout THEN 504
                    ELSE IF response.Status = StatusBusy THEN 503
                    ELSE IF response.Status = StatusRejected THEN 400
                    ELSE 500)

\* C2: every response whose status is not success has a non-empty Error and
\* an empty Choices[0].Text.
C2_NonSuccessHasError ==
    (Answered /\ response.Status # StatusSuccess)
        => /\ response.Error # ""
           /\ response.Choices[1].Text = ""

\* C5: a context cancelled during the backend call gives status canceled and
\* Error "context canceled", an expired deadline gives status timeout, and
\* neither gives serverError.
C5_CancelAndDeadline ==
    (Answered /\ Called /\ call.sent)
        => /\ request.env.do = "canceled"
                => /\ call.status = StatusCanceled
                   /\ response.Status = StatusCanceled
                   /\ response.Error = "context canceled"
           /\ request.env.do = "deadline"
                => /\ call.status = StatusTimeout
                   /\ response.Status = StatusTimeout
           /\ request.env.do \in {"canceled", "deadline"}
                => call.status # StatusServerError

\* C6: a backend that answers (its body read in full) with an HTTP status
\* outside 200..299 gives status modelError, in the adapter and in the
\* response, with an empty text and a non-empty Error.
C6_Non2xxIsModelError ==
    (/\ Answered /\ Called /\ call.sent
     /\ request.env.do = "response"
     /\ request.env.body.kind # "unreadable"
     /\ (request.env.code < 200 \/ request.env.code >= 300))
        => /\ call.status = StatusModelError
           /\ response.Status = StatusModelError
           /\ response.Choices[1].Text = ""
           /\ response.Error # ""

\* C7: the max-output-token value in the outgoing wire request is
\* min(param.MaxTokens, config.MaxOutput), never more than config.MaxOutput.
C7_MaxTokensClamped ==
    Called
        => /\ call.wire.max_tokens = Min(call.para.MaxTokens, call.backend.cfg.MaxOutput)
           /\ call.wire.max_tokens <= call.backend.cfg.MaxOutput

\* C7's case: a Sangfor backend, which forwards the parameter as it is, has
\* been sent a request.
C7_Witness ==
    /\ Called /\ call.sent
    /\ call.backend.variant = "SangforCompletion"
    /\ call.wire.max_tokens = call.backend.cfg.MaxOutput
    /\ call.status = StatusSuccess

CalledOpenAI == Called /\ call.backend.variant = "OpenAICompletion"

FimPromptOf(c, p) ==
    c.FimBegin \o p.CodeContext \o <<"\n">> \o p.Prefix \o c.FimHole \o p.Suffix \o c.FimEnd

\* C8 as stated: with FIM on the prompt is FimBegin + context + "\n" + prefix
\* + FimHole + suffix + FimEnd and no suffix field is sent; with FIM off the
\* prompt is context + "\n" + prefix and the suffix field is sent exactly
\* when the suffix is non-empty.
C8_PromptAssembly ==
    CalledOpenAI =>
        LET c == call.backend.cfg
            p == call.para
        IN  IF c.FimMode
            THEN call.wire.prompt = FimPromptOf(c, p) /\ ~call.wire.hasSuffix
            ELSE /\ call.wire.prompt = p.CodeContext \o <<"\n">> \o p.Prefix
                 /\ call.wire.hasSuffix <=> (p.Suffix # <<>>)

\* C8 amended: as stated, except that with FIM off and an empty context the
\* prompt is the prefix alone, with no newline before it.
C8_PromptAssemblyAmended ==
    CalledOpenAI =>
        LET c == call.backend.cfg
            p == call.para
        IN  IF c.FimMode
            THEN call.wire.prompt = FimPromptOf(c, p) /\ ~call.wire.hasSuffix
            ELSE /\ call.wire.prompt = (IF p.CodeContext = <<>> THEN p.Prefix
                                        ELSE p.CodeContext \o <<"\n">> \o p.Prefix)
                 /\ call.wire.hasSuffix <=> (p.Suffix # <<>>)
                 /\ call.wire.hasSuffix => call.wire.suffix = p.Suffix

\* C8's case: FIM off, no context, a prefix and a suffix.
C8_Witness ==
    /\ CalledOpenAI /\ call.sent
    /\ ~call.backend.cfg.FimMode
    /\ call.para.CodeContext = <<>>
    /\ call.para.Prefix # <<>>
    /\ call.wire.hasSuffix
    /\ call.wire.prompt = call.para.Prefix

InSeq(x, seq) == \E i \in 1..Len(seq) : seq[i] = x

\* The request's suffix as prepareStopWords receives it.
GivenSuffix == request.req.Suffix

\* C12 as stated: for every request, with any stop list of its own, the
\* derived stop list holds both "\n\n" and "\n\n\n" when the suffix is empty
\* and neither of them when the suffix is non-empty and not all whitespace.
C12_StopWordsBySuffix ==
    Called =>
        /\ GivenSuffix = <<>>
              => InSeq("\n\n", call.para.Stop) /\ InSeq("\n\n\n", call.para.Stop)
        /\ (GivenSuffix # <<>> /\ ~IsBlank(GivenSuffix))
              => ~InSeq("\n\n", call.para.Stop) /\ ~InSeq("\n\n\n", call.para.Stop)

\* C12 amended: the derived stop list is the request's own stop list, then
\* the end-of-sentence marker, then "\n\n" and "\n\n\n" when the suffix is
\* empty or blank; with a non-empty, non-blank suffix nothing follows the
\* end-of-sentence marker, so the two markers appear only where the request's
\* own list holds them.
C12_StopWordsAppended ==
    Called =>
        /\ (GivenSuffix = <<>> \/ IsBlank(GivenSuffix))
              => call.para.Stop = request.req.Stop \o <<EndOfSentence, "\n\n", "\n\n\n">>
        /\ (GivenSuffix # <<>> /\ ~IsBlank(GivenSuffix))
              => /\ call.para.Stop = request.req.Stop \o <<EndOfSentence>>
                 /\ \A w \in {"\n\n", "\n\n\n"} :
                        InSeq(w, call.para.Stop) <=> InSeq(w, request.req.Stop)

\* C12's case: a request that names "\n\n" as a stop word of its own, with a
\* non-blank suffix.
C12_Witness ==
    /\ Called
    /\ GivenSuffix # <<>> /\ ~IsBlank(GivenSuffix)
    /\ InSeq("\n\n", request.req.Stop)
    /\ InSeq("\n\n", call.para.Stop)
    /\ ~InSeq("\n\n\n", call.para.Stop)

\* C13: whenever the suffix sent to the backend is empty or all whitespace,
\* the stop list sent with it holds "\n\n" and "\n\n\n".
C13_StopWordsFollowSentSuffix ==
    (Called /\ (call.para.Suffix = <<>> \/ IsBlank(call.para.Suffix)))
        => /\ InSeq("\n\n", call.wire.stop) /\ InSeq("\n\n\n", call.wire.stop)
           /\ InSeq("\n\n", call.para.Stop) /\ InSeq("\n\n\n", call.para.Stop)

(***************************************************************************)
(* The single-line heuristic (parser/single_line.go).                      *)
(***************************************************************************)
MaxPieces == 5   \* pieces a cursor-line prefix is made of

IsSpace(ch) == ch \in {" ", "\t", "\n", "\r"}

\* strings.TrimSpace(text).
RECURSIVE TrimSpace(_)
TrimSpace(text) ==
    IF text = <<>> THEN <<>>
    ELSE IF IsSpace(text[1]) THEN TrimSpace(Tail(text))
    ELSE IF IsSpace(text[Len(text)]) THEN TrimSpace(SubSeq(text, 1, Len(text) - 1))
    ELSE text

\* strings.Fields(text): the maximal runs of non-space characters.
RECURSIVE Fields(_)
Fields(text) ==
    IF text = <<>> THEN <<>>
    ELSE IF IsSpace(text[1]) THEN Fields(Tail(text))
    ELSE LET n == IF \E i \in 1..Len(text) : IsSpace(text[i])
                  THEN (CHOOSE i \in 1..Len(text) :
                            IsSpace(text[i]) /\ \A j \in 1..(i - 1) : ~IsSpace(text[j])) - 1
                  ELSE Len(text)
         IN  <<SubSeq(text, 1, n)>> \o Fields(DropFirst(text, n))

\* The keyword sets, each keyword spelled as its characters.
codeBlockKeywordsMap ==
    [python |-> <<
        <<"i", "f">>, <<"e", "l", "s", "e">>, <<"e", "l", "i", "f">>,
        <<"f", "o", "r">>, <<"w", "h", "i", "l", "e">>, <<"t", "r", "y">>,
        <<"e", "x", "c", "e", "p", "t">>,
        <<"f", "i", "n", "a", "l", "l", "y">>, <<"d", "e", "f">>,
        <<"c", "l", "a", "s", "s">>, <<"w", "i", "t", "h">>,
        <<"a", "s", "y", "n", "c">>, <<"m", "a", "t", "c", "h">>>>,
     go |-> <<
        <<"f", "u", "n", "c">>, <<"i", "f">>, <<"e", "l", "s", "e">>,
        <<"f", "o", "r">>, <<"s", "w", "i", "t", "c", "h">>,
        <<"c", "a", "s", "e">>, <<"t", "y", "p", "e">>,
        <<"s", "e", "l", "e", "c", "t">>, <<"d", "e", "f", "e", "r">>,
        <<"g", "o">>>>,
     c |-> <<
        <<"t", "y", "p", "e", "d", "e", "f">>, <<"i", "f">>,
        <<"f", "o", "r">>, <<"d", "o">>, <<"w", "h", "i", "l", "e">>,
        <<"s", "w", "i", "t", "c", "h">>, <<"c", "a", "s", "e">>,
        <<"v", "o", "i", "d">>>>,
     cpp |-> <<
        <<"i", "f">>, <<"e", "l", "s", "e">>, <<"w", "h", "i", "l", "e">>,
        <<"d", "o">>, <<"f", "o", "r">>, <<"s", "w", "i", "t", "c", "h">>,
        <<"c", "a", "s", "e">>, <<"d", "e", "f", "a", "u", "l", "t">>,
        <<"t", "r", "y">>, <<"c", "a", "t", "c", "h">>,
        <<"s", "t", "r", "u", "c", "t">>, <<"e", "n", "u", "m">>,
        <<"c", "l", "a", "s", "s">>, <<"u", "n", "i", "o", "n">>,
        <<"p", "u", "b", "l", "i", "c">>,
        <<"t", "y", "p", "e", "d", "e", "f">>>>,
     javascript |-> <<
        <<"i", "f">>, <<"e", "l", "s", "e">>, <<"f", "o", "r">>,
        <<"w", "h", "i", "l", "e">>, <<"d", "o">>,
        <<"s", "w", "i", "t", "c", "h">>, <<"t", "r", "y">>,
        <<"c", "a", "t", "c", "h">>, <<"f", "i", "n", "a", "l", "l", "y">>,
        <<"f", "u", "n", "c", "t", "i", "o", "n">>,
        <<"c", "l", "a", "s", "s">>, <<"w", "i", "t", "h">>>>,
     typescript |-> <<
        <<"f", "u", "n", "c", "t", "i", "o", "n">>,
        <<"c", "l", "a", "s", "s">>, <<"i", "f">>, <<"f", "o", "r">>,
        <<"t", "r", "y">>, <<"i", "n", "t", "e", "r", "f", "a", "c", "e">>,
        <<"p", "r", "i", "v", "a", "t", "e">>,
        <<"s", "w", "i", "t", "c", "h">>, <<"c", "a", "s", "e">>>>,
     vue |-> <<
        <<"m", "e", "t", "h", "o", "d", "s", ":">>, <<"t", "r", "y">>,
        <<"i", "f">>, <<"s", "w", "i", "t", "c", "h">>,
        <<"c", "a", "s", "e">>, <<"f", "o", "r">>, <<"<", "i", "x", "-">>,
        <<"<", "s", "f", "-">>, <<"<", "l", "x", "-">>, <<"<", "e", "l", "-">>>>,
     other |-> <<
        <<"i", "f">>, <<"e", "l", "s", "e">>, <<"f", "o", "r">>,
        <<"w", "h", "i", "l", "e">>, <<"d", "o">>, <<"t", "r", "y">>,
        <<"c", "a", "t", "c", "h">>, <<"f", "i", "n", "a", "l", "l", "y">>>>]

getCodeBlockKeywords(language) ==
    IF language \in DOMAIN codeBlockKeywordsMap
    THEN codeBlockKeywordsMap[language]
    ELSE codeBlockKeywordsMap["other"]

\* A variant of the heuristic that compares every word, the first two
\* included, with the keywords as whole words only.
NeedSingleCompletionWholeWords(cursorLinePrefix, cursorLineSuffix, language) ==
    IF TrimSpace(cursorLineSuffix) # <<>> THEN TRUE
    ELSE IF TrimSpace(cursorLinePrefix) = <<>> THEN FALSE
    ELSE LET words    == Fields(TrimSpace(cursorLinePrefix))
             keywords == getCodeBlockKeywords(language)
         IN  ~\E k \in 1..Len(keywords) : \E w \in 1..Len(words) : words[w] = keywords[k]

\* NeedSingleCompletion: TRUE for single-line, FALSE for multi-line.  The
\* loop returns false at the first keyword that the first or the second word
\* begins with, or that some word equals.
NeedSingleCompletion(cursorLinePrefix, cursorLineSuffix, language) ==
    IF TrimSpace(cursorLineSuffix) # <<>> THEN TRUE
    ELSE IF TrimSpace(cursorLinePrefix) = <<>> THEN FALSE
    ELSE LET words    == Fields(TrimSpace(cursorLinePrefix))
             keywords == getCodeBlockKeywords(language)
         IN  ~\E k \in 1..Len(keywords) :
                 \/ Len(words) >= 1 /\ HasPrefix(words[1], keywords[k])
                 \/ Len(words) >= 2 /\ HasPrefix(words[2], keywords[k])
                 \/ \E w \in 1..Len(words) : words[w] = keywords[k]

\* The pieces cursor-line prefixes are made of, and the prefixes themselves.
Pieces == {<<" ">>, <<"i", "f">>, <<"f">>, <<"d", "o">>, <<"x">>}

LinePrefixes == {Join(p) : p \in SeqsUpTo(Pieces, MaxPieces)}

LineSuffixes == {<<>>, <<" ", " ">>, <<";">>, <<" ", "x">>}

Languages == {"python", "c", "other", "rust"}

LineInit ==
    /\ line \in [prefix : LinePrefixes, suffix : LineSuffixes, language : Languages]
    /\ single = [kind |-> "unset"]
    /\ RegIdle
    /\ TruncIdle
    /\ PipeIdle
    /\ ConcIdle

Classify ==
    /\ single = [kind |-> "unset"]
    /\ single' = [kind |-> "result",
                  value |-> NeedSingleCompletion(line.prefix, line.suffix, line.language)]
    /\ UNCHANGED <<line, regVars, truncVars, pipeVars, concVars>>

LineNext == Classify

SpecSingleLine == LineInit /\ [][LineNext]_vars

(***************************************************************************)
(* Claims about the single-line heuristic.                                 *)
(***************************************************************************)
Classified == single.kind = "result"

LineWords == Fields(TrimSpace(line.prefix))

\* The block-opening keywords of the line's language, as a set.
LineKeywords ==
    LET langs == {"python", "go", "c", "cpp", "javascript", "typescript", "vue", "other"}
        seq   == codeBlockKeywordsMap[IF line.language \in langs THEN line.language
                                      ELSE "other"]
    IN  {seq[k] : k \in 1..Len(seq)}

\* C14 as stated: single-line whenever the cursor-line suffix is non-blank;
\* with a blank suffix multi-line when the prefix is blank, and otherwise
\* single-line unless the first word, the second word or any whole word of
\* the prefix is a block-opening keyword (the generic set for an
\* unrecognized language).
C14_SingleUnlessKeywordWord ==
    Classified =>
        single.value = (IF ~IsBlank(line.suffix) THEN TRUE
                        ELSE IF IsBlank(line.prefix) THEN FALSE
                        ELSE ~\E w \in 1..Len(LineWords) : LineWords[w] \in LineKeywords)

\* C14 amended: as stated, except that the first and the second word count
\* as soon as they begin with a keyword; the other words only when they are
\* a keyword.
C14_SingleUnlessKeywordPrefix ==
    Classified =>
        single.value = (IF ~IsBlank(line.suffix) THEN TRUE
                        ELSE IF IsBlank(line.prefix) THEN FALSE
                        ELSE /\ \A w \in 1..Len(LineWords) : LineWords[w] \notin LineKeywords
                             /\ \A w \in 1..Len(LineWords) :
                                    w <= 2 => \A kw \in LineKeywords :
                                                  ~HasPrefix(LineWords[w], kw))

\* C14's case: suffix "  ", prefix "if x", language python is multi-line.
C14_Witness ==
    /\ Classified
    /\ line = [prefix |-> <<"i", "f", " ", "x">>, suffix |-> <<" ", " ">>,
               language |-> "python"]
    /\ single.value = FALSE

(***************************************************************************)
(* Claims about registration and selection by position.                    *)
(***************************************************************************)
\* C15: Init with no entry returns a failure and leaves the registry not
\* usable, whatever it held before: the process goes on with an empty
\* backend list, on which GetAutoModel panics.
C15_EmptyRegisterFails ==
    (lastCall.op = "Init" /\ lastCall.result # "nil")
        => /\ lastCall.result = "error"
           /\ alive
           /\ Len(models) = 0

\* C16: GetModel(i) returns the backend at position i when 0 <= i < N and
\* panics for every other i; in both cases the cursor and the backend list
\* are as they were.
C16_GetModelByPosition ==
    [][(\E idx \in (-1)..MaxBackends : GetModel(idx))
          => /\ index' = index
             /\ models' = models
             /\ lastCall'.op = "GetModel"
             /\ IF 0 <= lastCall'.idx /\ lastCall'.idx < Len(models)
                THEN lastCall'.result = "ok" /\ lastCall'.pos = lastCall'.idx
                ELSE lastCall'.result = "panic"]_vars

\* C16's case: a negative position asked of a registry that holds backends
\* and whose cursor has moved.
C16_Witness ==
    /\ lastCall.op = "GetModel"
    /\ lastCall.idx < 0
    /\ lastCall.result = "panic"
    /\ Len(models) >= 2
    /\ index >= 1

PreprocessAnswered ==
    /\ request # NoRequest
    /\ request.env.bindOk
    /\ request.env.pre.kind # "continue"
    /\ Preprocess(Input(request.req), NewPerf, request.env).rsp.kind = "response"

\* C18: when preprocessing yields a response, HandleCompletion returns that
\* response as it is, and the request has no truncation, no stop-word
\* derivation and no backend call.
C18_PreprocessShortCircuits ==
    PreprocessAnswered
        => /\ response = Preprocess(Input(request.req), NewPerf, request.env).rsp
           /\ emitted = Preprocess(Input(request.req), NewPerf, request.env).emitted
           /\ call = NoCall
           /\ \A stage \in {"truncate", "stopwords", "invoke", "prune"} : ~InSeq(stage, trace)

\* C18's case: preprocessing rejected the request.
C18_Witness ==
    /\ PreprocessAnswered
    /\ request.env.pre.kind = "reject"
    /\ response.kind = "response"
    /\ response.Status = StatusRejected
    /\ call = NoCall
    /\ trace = <<"preprocess", "metrics", "respond">>

\* The backend's completion text is empty, or post-processing emptied it.
EmptyCompletion ==
    /\ request.env.body.kind = "json"
    /\ \/ Len(request.env.body.Choices) = 0
       \/ request.env.body.Choices[1].Text = ""
       \/ ~pruneDisabled /\ request.env.prune = "empty"

\* C19: when the backend call returns success and the completion text is
\* empty (no choice, an empty first choice, or pruned to nothing), the
\* request ends with status empty and an empty text.
C19_EmptyIsItsOwnStatus ==
    (Called /\ call.status = StatusSuccess /\ EmptyCompletion)
        => /\ Answered
           /\ response.Status = StatusEmpty
           /\ response.Choices[1].Text = ""

\* C19's case: the backend returned a text and post-processing pruned it to
\* nothing.
C19_Witness ==
    /\ Called /\ call.status = StatusSuccess
    /\ Len(request.env.body.Choices) > 0
    /\ request.env.body.Choices[1].Text # ""
    /\ InSeq("prune", trace)
    /\ response.Status = StatusEmpty

\* The positions of a stage in the trace.
StageAt(stage) == {i \in 1..Len(trace) : trace[i] = stage}

\* C20: on every path that reaches the backend stage the metrics are emitted
\* exactly once, with the response's final status, after the total duration
\* was recorded.
C20_MetricsOncePerRequest ==
    (Called /\ response # NoResponse)
        => /\ Answered
           /\ Len(emitted) = 1
           /\ emitted[1].status = response.Status
           /\ emitted[1].model = response.Model
           /\ emitted[1].perf.TotalDuration
           /\ Cardinality(StageAt("metrics")) = 1
           /\ Cardinality(StageAt("totalDuration")) = 1
           /\ \A i \in StageAt("totalDuration"), j \in StageAt("metrics") : i < j

\* C20's case: a backend failure, reported once.
C20_Witness ==
    /\ Called /\ Answered
    /\ call.status = StatusModelError
    /\ response.Status = StatusModelError
    /\ Len(emitted) = 1
    /\ emitted[1].status = StatusModelError

\* C26: on a fixed registry of N >= 1 backends whose cursor was 0 when it
\* was registered, the (k+1)-th GetAutoModel call returns backend k mod N,
\* and any N consecutive calls return N different backends.
C26_StrictModuloRotation ==
    (Len(models) >= 1 /\ indexAtInit = 0) =>
        /\ \A k \in 1..Len(sinceInit) : sinceInit[k] = (k - 1) % Len(models)
        /\ \A j, k \in 1..Len(sinceInit) :
              (j < k /\ k - j < Len(models)) => sinceInit[j] # sinceInit[k]

\* C26's case: MaxBackends backends from cursor 0, MaxCalls calls made, so
\* the rotation has wrapped and gone on.
C26_Witness ==
    /\ Len(models) = MaxBackends /\ indexAtInit = 0
    /\ Len(sinceInit) = MaxCalls
    /\ MaxCalls > MaxBackends + 1
    /\ sinceInit[MaxBackends + 1] = 0
    /\ sinceInit[MaxBackends + 2] = 1

(***************************************************************************)
(* The registry called from several goroutines.  GetAutoModel and GetModel *)
(* hold manager.mutex from their first statement to their return (the      *)
(* unlock is deferred); Init assigns manager.models without taking it.     *)
(* Each statement that touches manager is one step.                        *)
(***************************************************************************)
MaxConcCalls == 3     \* registry calls made by the goroutines together

\* Two goroutines: every interleaving of one call with another call, or with
\* an Init, has two parties.
Threads == {"g1", "g2"}

\* A variant of the lock test under which Lock never waits.
CanLockNeverWaits(m) == TRUE

\* manager.mutex.Lock() proceeds only when no goroutine holds the mutex.
CanLock(m) == m = "free"

NoLocals == [modelLen |-> 0, i |-> 0, idx |-> 0, slot |-> 0]

Pending == [kind |-> "pending"]

\* The slice headers a read of manager.models can yield.  While Init's
\* assignment is being performed the read races with it: the length and the
\* array pointer each come from the old or from the new header.
SliceViews ==
    IF store = NoStore
    THEN {[len |-> Len(models), arr |-> models]}
    ELSE {[len |-> l, arr |-> a] : l \in {Len(models), Len(store.models)},
                                   a \in {models, store.models}}

\* manager.models[pos] through the header v: the bounds check is made against
\* the length that was read, the element comes from the array that was read.
Elem(v, pos) ==
    IF pos < 0 \/ pos >= v.len THEN [kind |-> "panic"]
    ELSE IF pos >= Len(v.arr) THEN [kind |-> "garbage"]
    ELSE [kind |-> "ok", pos |-> pos, model |-> v.arr[pos + 1]]

\* The shortest and the longest configuration, with alternating providers.
ConcConfigs ==
    {c \in SeqsUpTo(RegistryConfigs, MaxBackends) :
        /\ Len(c) \in {1, MaxBackends}
        /\ \A i \in 1..Len(c) :
              c[i].Provider = (IF i % 2 = 1 THEN "openai" ELSE "sangfor")}

ConcInit ==
    /\ loopVar = "perIteration"
    /\ \E c \in ConcConfigs : models = NewModels(c, loopVar)
    /\ index \in 0..Len(models)
    /\ indexAtInit = index
    /\ sinceInit = <<>>
    /\ maxModels = Len(models)
    /\ lastCall = [op |-> "none"]
    /\ alive = TRUE
    /\ inits = 1
    /\ mutex = "free"
    /\ pc = [t \in Threads |-> "idle"]
    /\ locals = [t \in Threads |-> NoLocals]
    /\ acq = <<>>
    /\ store = NoStore
    /\ TruncIdle
    /\ PipeIdle
    /\ LineIdle

ConcFrame == UNCHANGED <<sinceInit, maxModels, lastCall, alive, loopVar,
                         truncVars, pipeVars, lineVars>>

\* GetAutoModel, line 64: manager.mutex.Lock().
AutoLock(t) ==
    /\ pc[t] = "idle"
    /\ Len(acq) < MaxConcCalls
    /\ CanLock(mutex)
    /\ mutex' = t
    /\ acq' = Append(acq, [thread |-> t, op |-> "GetAutoModel", result |-> Pending])
    /\ locals' = [locals EXCEPT ![t].slot = Len(acq) + 1]
    /\ pc' = [pc EXCEPT ![t] = "auto_len"]
    /\ UNCHANGED <<models, index, indexAtInit, inits, store>>
    /\ ConcFrame

\* GetAutoModel, lines 66-69: modelLen := len(manager.models), panic when 0.
AutoLen(t) ==
    /\ pc[t] = "auto_len"
    /\ \E v \in SliceViews :
          /\ locals' = [locals EXCEPT ![t].modelLen = v.len]
          /\ IF v.len = 0
             THEN /\ acq' = [acq EXCEPT ![locals[t].slot].result = [kind |-> "panic"]]
                  /\ pc' = [pc EXCEPT ![t] = "unlock"]
             ELSE /\ pc' = [pc EXCEPT ![t] = "auto_test"]
                  /\ UNCHANGED acq
    /\ UNCHANGED <<models, index, indexAtInit, inits, mutex, store>>
    /\ ConcFrame

\* GetAutoModel, line 72: the cursor is read for the test index < modelLen.
AutoTest(t) ==
    /\ pc[t] = "auto_test"
    /\ locals' = [locals EXCEPT ![t].i = index]
    /\ pc' = [pc EXCEPT ![t] = "auto_pick"]
    /\ UNCHANGED <<models, index, indexAtInit, inits, mutex, acq, store>>
    /\ ConcFrame

\* GetAutoModel, lines 73-77: the backend at the cursor is read and the
\* cursor advanced, or the cursor is set to 1 and backend 0 is read.  A
\* failed bounds check panics before the increment.
AutoPick(t) ==
    /\ pc[t] = "auto_pick"
    /\ \E v \in SliceViews :
          \E r \in {Elem(v, AutoPos(locals[t].i, locals[t].modelLen))} :
             /\ acq' = [acq EXCEPT ![locals[t].slot].result = r]
             /\ index' = IF locals[t].i < locals[t].modelLen /\ r.kind = "panic"
                         THEN index
                         ELSE NextIndex(locals[t].i, locals[t].modelLen)
    /\ pc' = [pc EXCEPT ![t] = "unlock"]
    /\ UNCHANGED <<models, indexAtInit, inits, mutex, locals, store>>
    /\ ConcFrame

\* GetModel, line 98: manager.mutex.Lock().
GetLock(t, idx) ==
    /\ pc[t] = "idle"
    /\ Len(acq) < MaxConcCalls
    /\ CanLock(mutex)
    /\ mutex' = t
    /\ acq' = Append(acq, [thread |-> t, op |-> "GetModel", result |-> Pending])
    /\ locals' = [locals EXCEPT ![t].slot = Len(acq) + 1, ![t].idx = idx]
    /\ pc' = [pc EXCEPT ![t] = "get_len"]
    /\ UNCHANGED <<models, index, indexAtInit, inits, store>>
    /\ ConcFrame

\* GetModel, lines 101-103: panic when idx >= len(manager.models).
GetLen(t) ==
    /\ pc[t] = "get_len"
    /\ \E v \in SliceViews :
          IF locals[t].idx >= v.len
          THEN /\ acq' = [acq EXCEPT ![locals[t].slot].result = [kind |-> "panic"]]
               /\ pc' = [pc EXCEPT ![t] = "unlock"]
          ELSE /\ pc' = [pc EXCEPT ![t] = "get_read"]
               /\ UNCHANGED acq
    /\ UNCHANGED <<models, index, indexAtInit, inits, mutex, locals, store>>
    /\ ConcFrame

\* GetModel, line 104: return manager.models[idx].
GetRead(t) ==
    /\ pc[t] = "get_read"
    /\ \E v \in SliceViews :
          acq' = [acq EXCEPT ![locals[t].slot].result = Elem(v, locals[t].idx)]
    /\ pc' = [pc EXCEPT ![t] = "unlock"]
    /\ UNCHANGED <<models, index, indexAtInit, inits, mutex, locals, store>>
    /\ ConcFrame

\* The deferred manager.mutex.Unlock() of GetAutoModel and GetModel.
Unlock(t) ==
    /\ pc[t] = "unlock"
    /\ mutex' = "free"
    /\ pc' = [pc EXCEPT ![t] = "idle"]
    /\ locals' = [locals EXCEPT ![t] = NoLocals]
    /\ UNCHANGED <<models, index, indexAtInit, inits, acq, store>>
    /\ ConcFrame

\* Init, lines 131-143: the new backend list is built and its assignment to
\* manager.models begins.  No lock is taken.  (An empty configuration ends
\* the process and is covered by InitModels; one assignment is in progress
\* at a time.)
InitBuild(t, cfgModels) ==
    /\ pc[t] = "idle"
    /\ inits < MaxInits
    /\ store = NoStore
    /\ store' = [kind |-> "storing", models |-> NewModels(cfgModels, loopVar)]
    /\ inits' = inits + 1
    /\ pc' = [pc EXCEPT ![t] = "init_store"]
    /\ UNCHANGED <<models, index, indexAtInit, mutex, locals, acq>>
    /\ ConcFrame

\* Init, line 143: the assignment to manager.models is complete.
InitStore(t) ==
    /\ pc[t] = "init_store"
    /\ store # NoStore
    /\ models' = store.models
    /\ indexAtInit' = index
    /\ store' = NoStore
    /\ pc' = [pc EXCEPT ![t] = "idle"]
    /\ UNCHANGED <<index, inits, mutex, locals, acq>>
    /\ ConcFrame

ConcNext ==
    \E t \in Threads :
        \/ AutoLock(t)
        \/ AutoLen(t)
        \/ AutoTest(t)
        \/ AutoPick(t)
        \/ GetLock(t, MaxBackends - 1)
        \/ GetLen(t)
        \/ GetRead(t)
        \/ Unlock(t)
        \/ \E cfgModels \in ConcConfigs : InitBuild(t, cfgModels)
        \/ InitStore(t)

SpecConcurrent == ConcInit /\ [][ConcNext]_vars

(***************************************************************************)
(* Claims about concurrent registry calls.                                 *)
(***************************************************************************)
\* The cursor after k sequential GetAutoModel calls that found it at idx.
RECURSIVE SeqCursor(_, _, _)
SeqCursor(idx, modelLen, k) ==
    IF k = 0 THEN idx ELSE SeqCursor(NextIndex(idx, modelLen), modelLen, k - 1)

\* The positions in acq of the GetAutoModel calls.
AutoSlots == {k \in 1..Len(acq) : acq[k].op = "GetAutoModel"}

\* How many GetAutoModel calls acquired the lock before slot k.
AutoBefore(k) == Cardinality({j \in AutoSlots : j < k})

AutoDone == {k \in AutoSlots : acq[k].result # Pending}

\* C21: on a fixed registry (no Init since the goroutines started), the
\* GetAutoModel calls, taken in the order they acquired the lock, return
\* what the same number of sequential calls return, and the cursor is the
\* sequential cursor after the calls that have advanced it: no update is lost.
C21_LockOrderIsSequential ==
    inits = 1 =>
        /\ \A k \in AutoDone :
              /\ acq[k].result.kind = "ok"
              /\ acq[k].result.pos =
                    AutoPos(SeqCursor(indexAtInit, Len(models), AutoBefore(k)), Len(models))
        /\ index = SeqCursor(indexAtInit, Len(models), Cardinality(AutoDone))

\* C21 witness: two goroutines have each completed GetAutoModel calls on a
\* fixed registry, three calls in all, and the cursor has wrapped.
C21_Witness ==
    /\ inits = 1
    /\ Cardinality(AutoDone) = MaxConcCalls
    /\ \E j, k \in AutoDone : acq[j].thread # acq[k].thread
    /\ \E k \in AutoDone : k > 1 /\ acq[k].result.pos = 0
    /\ \A t \in Threads : pc[t] = "idle"

\* C25: Init's replacement of the backend list is made under the lock like
\* every other access, so a call running concurrently with an Init sees the
\* list before it or the list after it: the goroutine assigning
\* manager.models holds the mutex, and no call reads an element through a
\* length and an array that belong to different lists.
C25_InitUnderLock ==
    /\ \A t \in Threads : pc[t] = "init_store" => mutex = t
    /\ \A k \in 1..Len(acq) : acq[k].result.kind # "garbage"

(***************************************************************************)
(* Further claims about the pipeline.                                      *)
(***************************************************************************)
\* C27: a request whose body binds takes exactly one step of the rotation,
\* whatever preprocessing then decides; a request whose body does not bind,
\* and a handler built on a backend the caller supplies, leave the cursor
\* as it is.
C27_OneRotationStepPerBoundRequest ==
    [][ /\ (request = NoRequest /\ request' # NoRequest) =>
              IF request'.env.bindOk
              THEN /\ index' = (IF index < Len(models) THEN index + 1 ELSE 1)
                   /\ lastCall'.op = "GetAutoModel"
                   /\ lastCall'.pos = (IF index < Len(models) THEN index ELSE 0)
              ELSE index' = index /\ lastCall' = lastCall
        /\ (request' = NoRequest /\ lastCall'.op = "NewCompletionHandler") =>
              index' = index
      ]_vars

\* C27 witness: preprocessing answered a bound request without a backend
\* call, the rotation had wrapped to backend 0 for it and the cursor is 1.
C27_Witness ==
    /\ PreprocessAnswered
    /\ ~Called
    /\ lastCall.op = "GetAutoModel" /\ lastCall.pos = 0
    /\ index = 1
    /\ Len(trace) > 0

\* C27 witness, second case: a handler was built on a supplied backend
\* after the rotation had moved.
C27_WitnessSupplied ==
    /\ request = NoRequest
    /\ lastCall.op = "NewCompletionHandler"
    /\ index = 2

BackendFailed == Called /\ call.status # StatusSuccess

\* C22: when the backend's status is not success, the request is answered
\* with an error response carrying that status, the completion is not
\* pruned, and the prompt token count reported is the token count of the
\* truncated prefix plus that of the truncated context, 0 with no tokenizer.
C22_BackendFailureResponse ==
    BackendFailed =>
        /\ Answered
        /\ response.Status = call.status
        /\ response.Choices = <<[Text |-> ""]>>
        /\ ~InSeq("prune", trace)
        /\ response.Usage.PromptTokens =
              (IF tokenizer = "nil" THEN 0
               ELSE GetTokenCount(call.processed.Prefix)
                      + GetTokenCount(call.processed.CodeContext))
        /\ tokenizer = "nil" => response.Usage.PromptTokens = 0

\* C22 witness: a failed backend call whose prompt had been cut, answered
\* with the tokens of what was left; and the tokenizer is loaded.
C22_Witness ==
    /\ BackendFailed
    /\ Answered
    /\ tokenizer = "ok"
    /\ response.Usage.PromptTokens > 0
    /\ call.processed.CodeContext # request.req.CodeContext

\* C22 witness, second case: a failed backend call with no tokenizer and a
\* prefix, answered with a prompt token count of 0.
C22_WitnessNoTokenizer ==
    /\ BackendFailed
    /\ Answered
    /\ tokenizer = "nil"
    /\ request.req.Prefix # <<>>
    /\ response.Usage.PromptTokens = 0

\* The stages of a request in the order the code has them.
StageOrder ==
    <<"preprocess", "truncate", "stopwords", "invoke", "prune",
      "totalDuration", "metrics", "respond">>

StagePos(stage) == CHOOSE i \in 1..Len(StageOrder) : StageOrder[i] = stage

\* C23: the stages of a request happen in the order preprocess, truncate,
\* stop words, backend call, post-processing, response, none of them twice;
\* the backend is called at most once, whatever its status; and a request
\* that is answered has exactly one response built and written.
C23_StagesInOrderOnce ==
    (request # NoRequest /\ request.env.bindOk) =>
        /\ \A i, j \in 1..Len(trace) :
              i < j => StagePos(trace[i]) < StagePos(trace[j])
        /\ Cardinality(StageAt("invoke")) = (IF Called THEN 1 ELSE 0)
        /\ Called => SubSeq(trace, 1, 4) = SubSeq(StageOrder, 1, 4)
        /\ Len(emitted) <= 1
        /\ Answered => /\ Len(emitted) = 1
                       /\ Cardinality(StageAt("metrics")) = 1
                       /\ trace[Len(trace)] = "respond"

\* C23 witness: a request that went through every stage, post-processing
\* included.
C23_Witness ==
    /\ Answered
    /\ Called
    /\ trace = StageOrder

\* C23 witness, second case: the backend failed and was not called again.
C23_WitnessFailure ==
    /\ Answered
    /\ BackendFailed
    /\ call.status = StatusModelError
    /\ trace = <<"preprocess", "truncate", "stopwords", "invoke",
                 "totalDuration", "metrics", "respond">>

\* C28: every response CallLLM builds, for a success, an empty completion
\* or a backend failure, has a usage block whose total token count is its
\* prompt token count plus its completion token count.
C28_UsageTotalIsSum ==
    (Called /\ Answered) =>
        response.Usage.TotalTokens =
            response.Usage.PromptTokens + response.Usage.CompletionTokens

(***************************************************************************)
(* Further claims about truncation.                                        *)
(***************************************************************************)
Overflow ==
    GetTokenCount(ppt0.Prefix) + GetTokenCount(ppt0.CodeContext) - cfg.MaxPrefix

ContextOverBudget ==
    /\ tokenizer = "ok" /\ runs >= 1
    /\ Overflow > 0
    /\ GetTokenCount(ppt0.Prefix) < cfg.MaxPrefix

\* C24: with a tokenizer, when prefix and context together exceed MaxPrefix
\* and the prefix alone is below it, truncatePrompt takes exactly the
\* overflow, tokens(prefix) + tokens(context) - MaxPrefix tokens, off the
\* front of the context and leaves the prefix as it was.
C24_ContextLosesOverflow ==
    ContextOverBudget =>
        /\ ppt1.Prefix = ppt0.Prefix
        /\ Encode(ppt1.CodeContext) = DropFirst(Encode(ppt0.CodeContext), Overflow)
        /\ GetTokenCount(ppt1.CodeContext) = GetTokenCount(ppt0.CodeContext) - Overflow
        /\ HasSuffix(ppt0.CodeContext, ppt1.CodeContext)

\* C24 witness: a context of two different tokens lost its first one, next
\* to a prefix that was kept.
C24_Witness ==
    /\ ContextOverBudget
    /\ ppt0.Prefix # <<>>
    /\ Overflow = 1
    /\ GetTokenCount(ppt0.CodeContext) = 2
    /\ ppt0.CodeContext[1] # ppt0.CodeContext[Len(ppt0.CodeContext)]
    /\ ppt1.CodeContext = <<ppt0.CodeContext[Len(ppt0.CodeContext)]>>

KeptPrefix ==
    Decode(DropFirst(Encode(ppt0.Prefix), GetTokenCount(ppt0.Prefix) - cfg.MaxPrefix))

\* C30: with a tokenizer, when the prefix alone has at least MaxPrefix
\* tokens, prefix and context together exceed MaxPrefix, and the last
\* MaxPrefix tokens of the prefix hold no newline, truncatePrompt leaves an
\* empty prefix and an empty context.
C30_SingleLinePrefixVanishes ==
    (/\ tokenizer = "ok" /\ runs >= 1
     /\ GetTokenCount(ppt0.Prefix) >= cfg.MaxPrefix
     /\ Overflow > 0
     /\ ~HasNewline(KeptPrefix))
        => /\ ppt1.Prefix = <<>>
           /\ ppt1.CodeContext = <<>>

\* C30 witness: a prefix of one line with more tokens than a budget of at
\* least one token, with a context; nothing is left of either.
C30_Witness ==
    /\ tokenizer = "ok" /\ runs >= 1
    /\ cfg.MaxPrefix >= 1
    /\ GetTokenCount(ppt0.Prefix) > cfg.MaxPrefix
    /\ ~HasNewline(ppt0.Prefix)
    /\ ppt0.CodeContext # <<>>
    /\ KeptPrefix # <<>>
    /\ ppt1.Prefix = <<>>
    /\ ppt1.CodeContext = <<>>

====
